---- MODULE Spec2Model ----
(***************************************************************************)
(* The migration scripts of the repository as one state machine.            *)
(*                                                                          *)
(* The state is the directory supabase/migrations (an ordered corpus of     *)
(* SQL texts) and, for the script that ran last, the text it read and the   *)
(* module-level values it left (its accumulated output list, what it        *)
(* printed).  Every script is one action: a script is a straight-line       *)
(* program over all files.                                                  *)
(*                                                                          *)
(* A text is a sequence of tokens.  A token stands for a fixed piece of SQL *)
(* text; the string operations of the scripts ('in', split, join, count,    *)
(* the regular expressions) are modelled on tokens by what they do on the   *)
(* characters the tokens stand for.                                         *)
(***************************************************************************)
EXTENDS Integers, Sequences, FiniteSets, TLC

(***************************************************************************)
(* Bounds of the model.                                                     *)
(***************************************************************************)
\* Pieces of SQL the initial corpus is built from.
MaxItems == 2
\* In-place rewrites of the corpus by fix_all_migrations.py.
MaxRewrites == 2

(***************************************************************************)
(* Tokens.                                                                  *)
(***************************************************************************)
NL == "NL"                 \* "\n"
SP == "SP"                 \* " "
CMT == "--"                \* the line-comment marker
DD == "$$"                 \* the dollar-quote marker
SEMI == ";"
ALTER == "ALTER PUBLICATION supabase_realtime ADD TABLE"
CRFN == "CREATE FUNCTION"
CRTRG == "CREATE TRIGGER"

\* \s of the regular expressions.
IsSpace(t) == t \in {SP, NL}
\* Tokens made of \w characters only ([.\w] for the table of a trigger).
IsWord(t) ==
  t \in {"t1", "t2", "f", "g", "h", "trg", "trg2", "tbl", "ON", "on", "to", "run",
         "new", "rows", "x", "AS", "AFTER", "EXECUTE", "LANGUAGE", "DO", "END",
         "BEGIN", "EXCEPTION", "WHEN", "duplicate_object", "THEN", "NULL"}
\* re.IGNORECASE: ON in any case.
IsOn(t) == t \in {"ON", "on"}

(***************************************************************************)
(* String operations of Python on token sequences.                          *)
(***************************************************************************)
Min(S) == CHOOSE x \in S : \A y \in S : x <= y
Max2(a, b) == IF a >= b THEN a ELSE b
Min2(a, b) == IF a <= b THEN a ELSE b

\* tok in s
HasTok(s, tok) == \E i \in 1..Len(s) : s[i] = tok
\* pat in s, for a pattern of several tokens standing next to each other
HasSub(s, pat) ==
  \E i \in 1..(Len(s) - Len(pat) + 1) : \A k \in 1..Len(pat) : s[i + k - 1] = pat[k]
\* s.count(tok)
Count(s, tok) == Cardinality({i \in 1..Len(s) : s[i] = tok})
\* the first index >= from holding tok, 0 when there is none
IndexFrom(s, tok, from) ==
  LET I == {i \in from..Len(s) : s[i] = tok}
  IN  IF I = {} THEN 0 ELSE Min(I)

RECURSIVE Flatten(_)
\* ''.join(parts)
Flatten(parts) ==
  IF parts = <<>> THEN <<>> ELSE Head(parts) \o Flatten(Tail(parts))

RECURSIVE JoinLines(_)
\* '\n'.join(lines)
JoinLines(lines) ==
  IF lines = <<>> THEN <<>>
  ELSE IF Len(lines) = 1 THEN lines[1]
  ELSE lines[1] \o <<NL>> \o JoinLines(Tail(lines))

RECURSIVE SplitLines(_)
\* content.split('\n'): always at least one line
SplitLines(content) ==
  LET n == IndexFrom(content, NL, 1)
  IN  IF n = 0 THEN <<content>>
      ELSE <<SubSeq(content, 1, n - 1)>> \o SplitLines(SubSeq(content, n + 1, Len(content)))

\* The name of the i-th file of sorted(os.listdir(...)).
FileName(i) == ToString(i) \o ".sql"

(***************************************************************************)
(* The guarded block every wrapping script writes.                          *)
(***************************************************************************)
WrappedBlock(table_name) ==
  <<"DO", SP, DD, NL,
    "BEGIN", NL,
    SP, SP, "BEGIN", NL,
    SP, SP, SP, SP, ALTER, SP>> \o table_name \o <<SEMI, NL,
    SP, SP, "EXCEPTION", SP, "WHEN", SP, "duplicate_object", SP, "THEN", NL,
    SP, SP, SP, SP, "NULL", SEMI, NL,
    SP, SP, "END", SEMI, NL,
    "END", SP, DD, SEMI>>

NoMatch == [start |-> 0, end |-> 0, table |-> <<>>]

\* re.search(r'ALTER PUBLICATION supabase_realtime ADD TABLE ([^;]+);', s[from:]):
\* the leftmost phrase followed by a space, one or more characters other than
\* ';' (a line break is one) and a ';'.  start and end are the first and last
\* token of the match.
AlterSearch(s, from) ==
  LET ok(p) == /\ s[p] = ALTER
               /\ p + 2 <= Len(s)
               /\ s[p + 1] = SP
               /\ s[p + 2] # SEMI
               /\ IndexFrom(s, SEMI, p + 3) # 0
      P == {p \in from..Len(s) : ok(p)}
  IN  IF P = {} THEN NoMatch
      ELSE LET p == Min(P)
               q == IndexFrom(s, SEMI, p + 3)
           IN  [start |-> p, end |-> q, table |-> SubSeq(s, p + 2, q - 1)]

DO_DD == <<"DO", SP, DD>>     \* 'DO $$'
END_DD == <<"END", SP, DD>>   \* 'END $$'

(***************************************************************************)
(* fix_all_migrations.py                                                    *)
(***************************************************************************)
\* The lines the loop looks back over.
LookBack == 10

Say(msg, file, arg) == [msg |-> msg, file |-> file, arg |-> arg]

RECURSIVE FixAllLines(_, _, _, _, _)
\* for i, line in enumerate(lines): the list is changed in place, so the
\* context of a later line holds the blocks written for the earlier ones.
FixAllLines(lines, i, filename, modified, out) ==
  IF i > Len(lines) THEN [lines |-> lines, modified |-> modified, printed |-> out]
  ELSE
    LET line == lines[i]
        context == JoinLines(SubSeq(lines, Max2(1, i - LookBack), i - 1))
        match == AlterSearch(line, 1)
    IN  IF /\ HasTok(line, ALTER)
           /\ (~HasSub(context, DO_DD) \/ HasSub(context, END_DD))
           /\ match.start # 0
        THEN FixAllLines([lines EXCEPT ![i] = WrappedBlock(match.table)], i + 1,
                         filename, TRUE,
                         Append(out, Say("Fixed", filename, match.table)))
        ELSE FixAllLines(lines, i + 1, filename, modified, out)

\* FixAllFile without the 'if modified' before the write: every file is written.
FixAllFileAlwaysWrites(content, filename) ==
  LET r == FixAllLines(SplitLines(content), 1, filename, FALSE, <<>>)
  IN  [content |-> JoinLines(r.lines), modified |-> TRUE, printed |-> r.printed]

\* One file: what is on disk afterwards, whether it was written, what was printed.
FixAllFile(content, filename) ==
  LET r == FixAllLines(SplitLines(content), 1, filename, FALSE, <<>>)
  IN  [content |-> IF r.modified THEN JoinLines(r.lines) ELSE content,
       modified |-> r.modified,
       printed |-> r.printed]

(***************************************************************************)
(* generate_consolidated_v2.py                                              *)
(***************************************************************************)
RECURSIVE V2Parts(_, _)
\* new_content_parts, from the match search position last_idx on:
\* re.finditer gives the matches left to right, none overlapping another.
V2Parts(content, last_idx) ==
  LET match == AlterSearch(content, last_idx)
  IN  IF match.start = 0 THEN <<SubSeq(content, last_idx, Len(content))>>
      ELSE
        LET pre_context == SubSeq(content, 1, match.start - 1)
            dollar_count == Count(pre_context, DD)
            in_do_block == (dollar_count % 2 = 1)
        IN  <<SubSeq(content, last_idx, match.start - 1),
              IF in_do_block THEN SubSeq(content, match.start, match.end)
              ELSE WrappedBlock(match.table)>>
            \o V2Parts(content, match.end + 1)

GenerateConsolidatedV2File(content) ==
  IF HasTok(content, ALTER) THEN Flatten(V2Parts(content, 1)) ELSE content

\* The three entries both consolidating scripts append for a file.
StartHeader(filename) ==
  <<CMT, SP, "====", NL, CMT, SP, "Start of", SP, filename, NL, CMT, SP, "====", NL>>
EndHeader(filename) ==
  <<NL, CMT, SP, "====", NL, CMT, SP, "End of", SP, filename, NL, CMT, SP, "====", NL, NL>>
Sections(filename, content) == <<StartHeader(filename), content, EndHeader(filename)>>

(***************************************************************************)
(* generate_consolidated.py                                                 *)
(***************************************************************************)
\* Lines before the statement's line in its context.
V1Before == 10
\* Lines from the statement's line on that are searched for EXCEPTION.
V1After == 5

RECURSIVE V1Lines(_, _)
\* new_lines, from line i on; the context is taken from the lines as read.
V1Lines(lines, i) ==
  IF i > Len(lines) THEN <<>>
  ELSE
    LET line == lines[i]
        context == JoinLines(SubSeq(lines, Max2(1, i - V1Before), i))
        after == JoinLines(SubSeq(lines, i, Min2(Len(lines), i + V1After - 1)))
        match == AlterSearch(line, 1)
        new_line ==
          IF ~HasTok(line, ALTER) THEN line
          ELSE IF /\ HasTok(context, "BEGIN")
                  /\ (HasTok(context, "EXCEPTION") \/ HasTok(after, "EXCEPTION"))
               THEN line
          ELSE IF match.start # 0 THEN WrappedBlock(match.table)
          ELSE line
    IN  <<new_line>> \o V1Lines(lines, i + 1)

GenerateConsolidatedFile(content) ==
  IF HasTok(content, ALTER) THEN JoinLines(V1Lines(SplitLines(content), 1)) ELSE content

(***************************************************************************)
(* check_nesting.py                                                         *)
(***************************************************************************)
\* re.sub(r'--.*', '', content): '.' stops at the line break, so every line
\* loses what follows its first '--'.
RemoveComments(content) ==
  LET lines == SplitLines(content)
      cut(line) == LET c == IndexFrom(line, CMT, 1)
                   IN  IF c = 0 THEN line ELSE SubSeq(line, 1, c - 1)
  IN  JoinLines([i \in 1..Len(lines) |-> cut(lines[i])])

\* s.count('DO $$')
CountDoBlocks(s) ==
  Cardinality({i \in 1..(Len(s) - 2) : SubSeq(s, i, i + 2) = DO_DD})

\* What the script prints for one file.
CheckNestingFile(content, filename) ==
  LET content_no_comments == RemoveComments(content)
      do_count == CountDoBlocks(content_no_comments)
      \* re.search(r'DO \$\$.*DO \$\$', ..., re.DOTALL)
      nested == \E i, j \in 1..(Len(content_no_comments) - 2) :
                  /\ i + 3 <= j
                  /\ SubSeq(content_no_comments, i, i + 2) = DO_DD
                  /\ SubSeq(content_no_comments, j, j + 2) = DO_DD
  IN  IF do_count > 1
      THEN <<Say("has DO $$ blocks", filename, <<ToString(do_count)>>)>>
           \o (IF nested THEN <<Say("POTENTIAL NESTING DETECTED", filename, <<>>)>> ELSE <<>>)
      ELSE <<>>

(***************************************************************************)
(* extract_functions.py                                                     *)
(***************************************************************************)
\* CREATE\s+(OR\s+REPLACE\s+)?FUNCTION
IsCreateFunction(t) == t \in {CRFN, "CREATE OR REPLACE FUNCTION"}

\* is_commented: a '--' between the start of the match's line and the match.
is_commented(content, match_start) ==
  \E j \in 1..(match_start - 1) :
    /\ content[j] = CMT
    /\ \A k \in j..(match_start - 1) : content[k] # NL

\* The function statement starting at start: from the keyword to the first ';'
\* after the second '$$' after it; 0 when a nested search finds nothing.
FunctionEnd(content, start) ==
  LET body_start == IndexFrom(content, DD, start)
      body_end == IF body_start = 0 THEN 0 ELSE IndexFrom(content, DD, body_start + 1)
  IN  IF body_end = 0 THEN 0 ELSE IndexFrom(content, SEMI, body_end + 1)

FromLine(filename) == <<CMT, SP, "From", SP, filename, NL>>

RECURSIVE FunctionFragments(_, _, _)
\* for start in starts: the fragments appended, each with the place it was
\* taken from.
FunctionFragments(content, filename, from) ==
  LET S == {p \in from..Len(content) : IsCreateFunction(content[p])}
  IN  IF S = {} THEN <<>>
      ELSE
        LET start == Min(S)
            full_end == FunctionEnd(content, start)
        IN  (IF ~is_commented(content, start) /\ full_end # 0
             THEN <<[text |-> FromLine(filename) \o SubSeq(content, start, full_end) \o <<NL>>,
                     kind |-> "function", start |-> start]>>
             ELSE <<>>)
            \o FunctionFragments(content, filename, start + 1)

\* The first index after p that holds no whitespace (Len + 1 when none does).
SkipSpace(s, p) ==
  LET I == {i \in (p + 1)..Len(s) : ~IsSpace(s[i])}
  IN  IF I = {} THEN Len(s) + 1 ELSE Min(I)

NoTrigger == [start |-> 0, end |-> 0, name |-> "", table |-> ""]

\* \s+ON\s+([.\w]+)\s+(?:.*?);  with ON at position k: the table, whitespace
\* and a ';' somewhere after it.
TriggerTail(s, k) ==
  LET m == SkipSpace(s, k)
  IN  /\ IsOn(s[k])
      /\ m > k + 1 /\ m + 1 <= Len(s)
      /\ IsWord(s[m]) /\ IsSpace(s[m + 1])
      /\ IndexFrom(s, SEMI, m + 2) # 0

\* The position of the ON the match takes, for the name at position a; 0 when
\* there is none.  The two lazy groups take the shortest text that lets the
\* rest match.
TriggerOn(s, a) ==
  LET r == SkipSpace(s, a) - 1                   \* the whitespace after the name ends here
      \* \s+ after the name takes all the whitespace; (?:.*?)\s+ON comes later
      K == {k \in (r + 2)..Len(s) : IsSpace(s[k - 1]) /\ TriggerTail(s, k)}
  IN  IF K # {} THEN Min(K)
      \* or it gives a character back and ON follows the whitespace at once
      ELSE IF r >= a + 2 /\ r + 1 <= Len(s) /\ TriggerTail(s, r + 1) THEN r + 1
      ELSE 0

\* CREATE\s+TRIGGER\s+(\w+)\s+(?:.*?)\s+ON\s+([.\w]+)\s+(?:.*?);  with DOTALL and
\* IGNORECASE, tried at position p.
TriggerAt(s, p) ==
  LET a == SkipSpace(s, p)                       \* the name
      k == TriggerOn(s, a)
      m == SkipSpace(s, k)                       \* the table
  IN  IF /\ s[p] = CRTRG
         /\ a > p + 1 /\ a + 1 <= Len(s)
         /\ IsWord(s[a]) /\ IsSpace(s[a + 1])
         /\ k # 0
      THEN [start |-> p, end |-> IndexFrom(s, SEMI, m + 2), name |-> s[a], table |-> s[m]]
      ELSE NoTrigger

\* The leftmost match at or after from.
TriggerSearch(s, from) ==
  LET P == {p \in from..Len(s) : TriggerAt(s, p).start # 0}
  IN  IF P = {} THEN NoTrigger ELSE TriggerAt(s, Min(P))

RECURSIVE TriggerFragmentsFrom(_, _, _)
\* for match in trigger_iter, from match on: re.finditer resumes after the end
\* of a match, a commented one included.
TriggerFragmentsFrom(content, filename, match) ==
  IF match.start = 0 THEN <<>>
  ELSE
    LET full_stmt == SubSeq(content, match.start, match.end)
        drop_stmt == <<"DROP TRIGGER IF EXISTS", SP, match.name, SP, "ON", SP,
                       match.table, SEMI>>
    IN  (IF ~is_commented(content, match.start)
         THEN <<[text |-> FromLine(filename) \o drop_stmt \o <<NL>> \o full_stmt \o <<NL>>,
                 kind |-> "trigger", start |-> match.start]>>
         ELSE <<>>)
        \o TriggerFragmentsFrom(content, filename, TriggerSearch(content, match.end + 1))

TriggerFragments(content, filename) ==
  TriggerFragmentsFrom(content, filename, TriggerSearch(content, 1))

\* ExtractFile with its two loops in the other order.
ExtractFileTriggersFirst(content, filename) ==
  TriggerFragments(content, filename) \o FunctionFragments(content, filename, 1)

\* What one file adds to functions_content.
ExtractFile(content, filename) ==
  FunctionFragments(content, filename, 1) \o TriggerFragments(content, filename)

(***************************************************************************)
(* The state.                                                               *)
(***************************************************************************)
VARIABLES
  files,                 \* supabase/migrations: the texts, in sorted file order
  script,                \* the script that ran last
  read,                  \* the corpus that script read
  written,               \* the files it wrote back (fix_all_migrations.py)
  consolidated_content,  \* the list of the consolidating script that ran last
  functions_content,     \* the list of extract_functions.py
  origins,               \* for each entry of functions_content: file, kind, start
  printed,               \* what the script printed
  rewrites               \* runs of fix_all_migrations.py that wrote a file

vars == <<files, script, read, written, consolidated_content, functions_content,
          origins, printed, rewrites>>

(***************************************************************************)
(* The initial corpora: up to MaxItems pieces of SQL in one or more files.  *)
(***************************************************************************)
\* A statement inside a DO block that guards nothing.
UnrelatedBlock ==
  <<"DO", SP, DD, NL,
    "BEGIN", NL,
    SP, SP, ALTER, SP, "t1", SEMI, NL,
    "END", SP, DD, SEMI>>

\* Pieces of migrations that add tables to the publication.
WrapPieces ==
  << <<ALTER, SP, "t1", SEMI>>,
     <<SP, SP, ALTER, SP, "t2", SEMI, SP, CMT, SP, "x">>,
     <<CMT, SP, ALTER, SP, "t1", SEMI>>,
     <<"DO", SP, DD>>,
     <<CMT, SP, DD>>,
     UnrelatedBlock >>

\* Pieces of migrations that define functions and triggers.
ExtractPieces ==
  << <<CRFN, SP, "f", "()", SP, "AS", SP, DD, SP, "x", SEMI, SP, DD, SP, "LANGUAGE", SEMI>>,
     <<"CREATE OR REPLACE FUNCTION", SP, "h", "()", SP, "AS", SP, DD, SP, "x", SEMI>>,
     <<CMT, SP, CRFN, SP, "f", "()">>,
     <<CRTRG, SP, "trg", SP, "AFTER", SP, "ON", SP, "tbl", SP, "EXECUTE", SP, "f", "()", SEMI>>,
     <<CMT, SP, CRTRG, SP, "to", SP, "run", SP, "on", SP, "new", SP, "rows">> >>

\* An item <<k, new>> is the k-th piece on a line of its own, the first line of
\* the next file when new is TRUE (the first item always starts the first file).
RECURSIVE Corpus(_, _, _)
Corpus(pieces, items, done) ==
  IF items = <<>> THEN done
  ELSE
    LET piece == pieces[Head(items)[1]]
        n == Len(done)
    IN  IF n = 0 \/ Head(items)[2]
        THEN Corpus(pieces, Tail(items), Append(done, piece))
        ELSE Corpus(pieces, Tail(items), [done EXCEPT ![n] = done[n] \o <<NL>> \o piece])

Corpora(pieces) ==
  {Corpus(pieces, items, <<>>) :
     items \in UNION {[1..n -> (1..Len(pieces)) \X BOOLEAN] : n \in 0..MaxItems}}

Init ==
  /\ files \in Corpora(WrapPieces) \cup Corpora(ExtractPieces)
  /\ script = "none"
  /\ read = <<>>
  /\ written = {}
  /\ consolidated_content = <<>>
  /\ functions_content = <<>>
  /\ origins = <<>>
  /\ printed = <<>>
  /\ rewrites = 0

(***************************************************************************)
(* The scripts.                                                             *)
(***************************************************************************)
Count_files == <<ToString(Len(files))>>

\* python fix_all_migrations.py
FixAllMigrations ==
  LET fixed == [i \in 1..Len(files) |-> FixAllFile(files[i], FileName(i))]
      wrote == {i \in 1..Len(files) : fixed[i].modified}
  IN  /\ rewrites < MaxRewrites
      /\ files' = [i \in 1..Len(files) |-> fixed[i].content]
      /\ written' = wrote
      /\ rewrites' = IF wrote = {} THEN rewrites ELSE rewrites + 1
      /\ printed' = <<Say("Found migration files", "", Count_files)>>
                    \o Flatten([i \in 1..Len(files) |-> fixed[i].printed])
                    \o <<Say("All migration files have been fixed!", "", <<>>)>>
      /\ script' = "fix_all_migrations"
      /\ read' = files
      /\ consolidated_content' = <<>>
      /\ functions_content' = <<>>
      /\ origins' = <<>>

\* python generate_consolidated.py
GenerateConsolidated ==
  /\ consolidated_content' =
       Flatten([i \in 1..Len(files) |->
                  Sections(FileName(i), GenerateConsolidatedFile(files[i]))])
  /\ printed' = <<Say("Found migration files", "", Count_files),
                  Say("Successfully created", "", <<ToString(3 * Len(files))>>)>>
  /\ script' = "generate_consolidated"
  /\ read' = files
  /\ written' = {}
  /\ functions_content' = <<>>
  /\ origins' = <<>>
  /\ UNCHANGED <<files, rewrites>>

\* python generate_consolidated_v2.py
GenerateConsolidatedV2 ==
  /\ consolidated_content' =
       Flatten([i \in 1..Len(files) |->
                  Sections(FileName(i), GenerateConsolidatedV2File(files[i]))])
  /\ printed' = <<Say("Found migration files", "", Count_files),
                  Say("Successfully created", "", <<>>)>>
  /\ script' = "generate_consolidated_v2"
  /\ read' = files
  /\ written' = {}
  /\ functions_content' = <<>>
  /\ origins' = <<>>
  /\ UNCHANGED <<files, rewrites>>

\* python check_nesting.py
CheckNesting ==
  /\ printed' = <<Say("Checking files for nested DO blocks", "", Count_files)>>
                \o Flatten([i \in 1..Len(files) |-> CheckNestingFile(files[i], FileName(i))])
  /\ script' = "check_nesting"
  /\ read' = files
  /\ written' = {}
  /\ consolidated_content' = <<>>
  /\ functions_content' = <<>>
  /\ origins' = <<>>
  /\ UNCHANGED <<files, rewrites>>

\* functions_content after the files so far, with the place of every entry.
Extracted(corpus) ==
  Flatten([i \in 1..Len(corpus) |->
             LET fr == ExtractFile(corpus[i], FileName(i))
             IN  [k \in 1..Len(fr) |-> [text |-> fr[k].text,
                                        origin |-> [file |-> i, kind |-> fr[k].kind,
                                                    start |-> fr[k].start]]]])

\* python extract_functions.py
ExtractFunctions ==
  \E found \in {Extracted(files)} :
    /\ functions_content' = [k \in 1..Len(found) |-> found[k].text]
    /\ origins' = [k \in 1..Len(found) |-> found[k].origin]
    /\ printed' = <<Say("extracting functions", "", Count_files),
                    Say("Successfully created", "", <<>>)>>
    /\ script' = "extract_functions"
    /\ read' = files
    /\ written' = {}
    /\ consolidated_content' = <<>>
    /\ UNCHANGED <<files, rewrites>>

Next ==
  \/ FixAllMigrations
  \/ GenerateConsolidated
  \/ GenerateConsolidatedV2
  \/ CheckNesting
  \/ ExtractFunctions

Spec == Init /\ [][Next]_vars

(***************************************************************************)
(* What the specification says about a text, for stating the claims.        *)
(***************************************************************************)
\* Position p lies in a line comment: a '--' stands before it on its line.
Commented(text, p) ==
  \E j \in 1..(p - 1) : text[j] = CMT /\ \A k \in j..(p - 1) : text[k] # NL

\* The nesting depth at p: every '$$' outside a comment toggles it.
RealDepth(text, p) ==
  Cardinality({j \in 1..(p - 1) : text[j] = DD /\ ~Commented(text, j)}) % 2

\* The total number of '$$' outside comments is odd.
OddMarkers(text) == RealDepth(text, Len(text) + 1) = 1

\* The places of the target phrase, and the statements among them: the phrase,
\* a table, and a terminating ';'.
Phrases(text) == {p \in 1..Len(text) : text[p] = ALTER}
IsStatement(text, p) ==
  /\ p + 2 <= Len(text)
  /\ text[p] = ALTER /\ text[p + 1] = SP /\ text[p + 2] # SEMI
  /\ IndexFrom(text, SEMI, p + 3) # 0
NoTarget(text) == \A p \in Phrases(text) : IndexFrom(text, SEMI, p) = 0

RECURSIVE ReplaceFrom(_, _, _)
\* text from position from on, with the statements starting at the places P
\* replaced by the guarded block and every other character kept.
ReplaceFrom(text, P, from) ==
  LET Q == {p \in P : p >= from}
  IN  IF Q = {} THEN SubSeq(text, from, Len(text))
      ELSE LET p == Min(Q)
               q == IndexFrom(text, SEMI, p + 3)
           IN  SubSeq(text, from, p - 1) \o WrappedBlock(SubSeq(text, p + 2, q - 1))
               \o ReplaceFrom(text, P, q + 1)

\* The phrase at p stands in the guarded block, as its statement.
Guarded(text, p) ==
  LET q == IndexFrom(text, SEMI, p + 3)
      block == WrappedBlock(SubSeq(text, p + 2, q - 1))
      first == p - IndexFrom(block, ALTER, 1) + 1
  IN  /\ IsStatement(text, p)
      /\ first >= 1
      /\ first + Len(block) - 1 <= Len(text)
      /\ SubSeq(text, first, first + Len(block) - 1) = block

\* The text a wrap run gave for the i-th file it read.
ConsolidatingScripts == {"generate_consolidated", "generate_consolidated_v2"}
WrapOutput(i) ==
  IF script = "fix_all_migrations" THEN files[i] ELSE consolidated_content[3 * i - 1]

\* The run printed a line about the i-th file other than "Fixed".
Reported(i) ==
  \E k \in 1..Len(printed) : printed[k].file = FileName(i) /\ printed[k].msg # "Fixed"

\* The fragments taken from place p of the i-th file.
FragmentsAt(i, kind, p) ==
  {k \in 1..Len(origins) :
     origins[k].file = i /\ origins[k].kind = kind /\ origins[k].start = p}

(***************************************************************************)
(* The claims.                                                              *)
(***************************************************************************)

\* C1: wrap mode is idempotent: a file in which every target statement already
\* stands in the guarded block comes out of a further wrap run byte-identical.
C1_WrapIdempotent ==
  script \in {"fix_all_migrations", "generate_consolidated_v2"} =>
    \A i \in 1..Len(read) :
      (Phrases(read[i]) # {} /\ \A p \in Phrases(read[i]) : Guarded(read[i], p))
        => WrapOutput(i) = read[i]

\* C2: for bare statements (depth 0, not commented) the output of wrap mode is
\* the input with exactly each statement's range, phrase through ';', replaced
\* by the guarded block, every other character unchanged and in order.
C2_WrapReplacesExactRange ==
  script \in {"fix_all_migrations", "generate_consolidated_v2"} =>
    \A i \in 1..Len(read) :
      (\A p \in Phrases(read[i]) :
         /\ IsStatement(read[i], p)
         /\ ~Commented(read[i], p)
         /\ Count(SubSeq(read[i], 1, p - 1), DD) = 0)
        => WrapOutput(i) = ReplaceFrom(read[i], Phrases(read[i]), 1)

\* A complete trigger statement starts at p: CREATE TRIGGER, a name, ON, a
\* table and a ';', with no comment before the ';'.
IsTriggerStatement(text, p) ==
  LET q == IndexFrom(text, SEMI, p)
  IN  /\ text[p] = CRTRG
      /\ q # 0
      /\ \E k \in p..q : IsOn(text[k])
      /\ \A k \in p..q : text[k] # CMT

\* C3: comment immunity: a target phrase inside a line comment gives no
\* occurrence (no fragment, no wrapping), and an uncommented statement, also
\* one on the line after a commented phrase, gives exactly one.
C3_CommentImmunity ==
  /\ script = "extract_functions" =>
       \A i \in 1..Len(read) : \A p \in 1..Len(read[i]) :
         /\ Commented(read[i], p) =>
              FragmentsAt(i, "function", p) \cup FragmentsAt(i, "trigger", p) = {}
         /\ (~Commented(read[i], p) /\ IsTriggerStatement(read[i], p)) =>
              Cardinality(FragmentsAt(i, "trigger", p)) = 1
  /\ script \in {"fix_all_migrations", "generate_consolidated_v2"} =>
       \A i \in 1..Len(read) :
         (\A p \in Phrases(read[i]) : Commented(read[i], p)) => WrapOutput(i) = read[i]

\* C4: a statement inside a closed delimited block without the guarded shape
\* (depth 1, no exception clause) is Ambiguous: it is not rewritten, and it is not left
\* without a report.
C4_AmbiguousFlagged ==
  script \in {"fix_all_migrations", "generate_consolidated", "generate_consolidated_v2"} =>
    \A i \in 1..Len(read) :
      (/\ Phrases(read[i]) # {}
       /\ ~OddMarkers(read[i])
       /\ ~HasTok(read[i], "EXCEPTION")
       /\ \A p \in Phrases(read[i]) :
            IsStatement(read[i], p) /\ ~Commented(read[i], p) /\ RealDepth(read[i], p) = 1)
        => (WrapOutput(i) = read[i] /\ Reported(i))

\* A complete function definition starts at p: the keyword, a body between two
\* '$$' and a ';' after the second, all outside comments.
IsFunctionStatement(text, p) ==
  LET d1 == IndexFrom(text, DD, p)
      d2 == IndexFrom(text, DD, d1 + 1)
      q == IndexFrom(text, SEMI, d2 + 1)
  IN  /\ IsCreateFunction(text[p])
      /\ ~Commented(text, p)
      /\ d1 # 0 /\ d2 # 0 /\ q # 0
      /\ \A k \in (p + 1)..q :
           text[k] # CMT /\ ~IsCreateFunction(text[k]) /\ text[k] # CRTRG

\* C5: extraction fidelity: the fragment of an uncommented function definition
\* holds the statement byte for byte, keyword through ';', and before it a
\* guard statement that names the function.
C5_ExtractionFidelity ==
  script = "extract_functions" =>
    \A i \in 1..Len(read) : \A p \in 1..Len(read[i]) :
      IsFunctionStatement(read[i], p) =>
        \E k \in FragmentsAt(i, "function", p) :
          LET text == read[i]
              q == IndexFrom(text, SEMI, IndexFrom(text, DD, IndexFrom(text, DD, p) + 1) + 1)
              stmt == SubSeq(text, p, q)
              fragment == functions_content[k]
              from == FromLine(FileName(i))
              guard == SubSeq(fragment, Len(from) + 1, Len(fragment) - Len(stmt) - 1)
          IN  /\ SubSeq(fragment, 1, Len(from)) = from
              /\ SubSeq(fragment, Len(fragment) - Len(stmt), Len(fragment) - 1) = stmt
              /\ HasTok(guard, text[p + 2])

\* C6 as stated: the fragments stand in file order and, within a file, in the
\* order of their start positions, functions and triggers alike.
C6_OrderByStart ==
  \A j, k \in 1..Len(origins) :
    j < k => \/ origins[j].file < origins[k].file
             \/ origins[j].file = origins[k].file /\ origins[j].start < origins[k].start

\* C6 (amended): the fragments stand in file order; within a file all function
\* fragments come before all trigger fragments, and the fragments of one kind
\* stand in the order of their start positions.  Every fragment is headed by
\* its file's name and holds the keyword it was found at.
C6_OrderByFileKindStart ==
  /\ Len(origins) = Len(functions_content)
  /\ \A k \in 1..Len(origins) :
       LET o == origins[k]
           from == FromLine(FileName(o.file))
       IN  /\ SubSeq(functions_content[k], 1, Len(from)) = from
           /\ HasTok(functions_content[k], read[o.file][o.start])
  /\ \A j, k \in 1..Len(origins) :
       j < k => \/ origins[j].file < origins[k].file
                \/ /\ origins[j].file = origins[k].file
                   /\ \/ origins[j].kind = "function" /\ origins[k].kind = "trigger"
                      \/ origins[j].kind = origins[k].kind /\ origins[j].start < origins[k].start

\* A run extracted, from one file, a function that starts after a trigger.
C6_Witness ==
  /\ script = "extract_functions"
  /\ \E j, k \in 1..Len(origins) :
       /\ j < k /\ origins[j].file = origins[k].file
       /\ origins[j].kind = "function" /\ origins[k].kind = "trigger"
       /\ origins[j].start > origins[k].start

C8_OddMarkersFatal ==
  script \in {"generate_consolidated_v2", "check_nesting"} =>
    \A i \in 1..Len(read) :
      OddMarkers(read[i]) =>
        /\ Reported(i)
        /\ script = "generate_consolidated_v2" => WrapOutput(i) \in {read[i], <<>>}

\* A function definition at p opens a body that is not closed, or not
\* terminated, before the end of the text.
IsTruncated(text, p) ==
  LET d1 == IndexFrom(text, DD, p)
      d2 == IndexFrom(text, DD, d1 + 1)
  IN  /\ IsCreateFunction(text[p])
      /\ ~Commented(text, p)
      /\ d1 # 0
      /\ (d2 = 0 \/ IndexFrom(text, SEMI, d2 + 1) = 0)

\* C9: a function definition whose body is never closed and terminated gives
\* no fragment and is reported as truncated.
C9_TruncatedReported ==
  script = "extract_functions" =>
    \A i \in 1..Len(read) : \A p \in 1..Len(read[i]) :
      IsTruncated(read[i], p) =>
        (FragmentsAt(i, "function", p) = {} /\ Reported(i))

\* C10: a '$$' inside a line comment does not change the depth: of the
\* uncommented statements of a file, generate_consolidated_v2.py wraps those
\* at depth 0 and leaves those at depth 1.
C10_CommentedMarkerIgnored ==
  script = "generate_consolidated_v2" =>
    \A i \in 1..Len(read) :
      (\A p \in Phrases(read[i]) : IsStatement(read[i], p) /\ ~Commented(read[i], p))
        => WrapOutput(i) =
             ReplaceFrom(read[i], {p \in Phrases(read[i]) : RealDepth(read[i], p) = 0}, 1)

====
